---- MODULE Spec2Model ----
(***************************************************************************)
(* The HMM engine of hmm_based_isolated_word_recognizer.py (class MyHMM):  *)
(* construction, forward, viterbi and viterbi_transition_update, driven by *)
(* a caller that obtains emission matrices frame by frame.                 *)
(*                                                                         *)
(* Numbers.  Log-domain values are integers in units of 1/1000 nat;        *)
(* probabilities are integers in units of 1/1000.  A float NaN is the      *)
(* value NaN below and propagates through every arithmetic operation as    *)
(* IEEE-754 and numpy do; it is an integer far below every score the       *)
(* model can produce.  log and exp are piecewise linear between powers of  *)
(* two, and rounding of float addition is not modelled.  Indices stored in *)
(* q_star, psi and labels are the 0-based indices of the code; sequences   *)
(* are indexed from 1, so the code's x[i] is x[i+1] here.                  *)
(***************************************************************************)
EXTENDS Integers, Sequences, FiniteSets, TLC

VARIABLES
  constructed,        \* a MyHMM object exists
  ctor,               \* the arguments __init__ was called with
  eps, pi, A, labels, N_states,   \* the fields of the MyHMM object
  state_likelihoods,  \* the caller's emission matrix (T rows of NumClasses values)
  op,                 \* the last step: "none", "__init__", or the method called
  err,                \* "none" or the exception the last call raised
  built,              \* the arrays the last call allocated before it returned or raised
  alpha,              \* forward trellis of the last forward call
  delta, psi,         \* Viterbi trellises of the last viterbi call
  q_star,             \* path returned by the last viterbi call
  score,              \* value returned by the last forward call
  twice               \* history: the update before the last one, when both
                      \* were consecutive completed updates on one utterance

model_vars == <<constructed, ctor, eps, pi, A, labels, N_states>>
call_vars  == <<op, err, built, alpha, delta, psi, q_star, score>>
vars == <<constructed, ctor, eps, pi, A, labels, N_states, state_likelihoods,
          op, err, built, alpha, delta, psi, q_star, score, twice>>

-----------------------------------------------------------------------------
(* Bounds of the model *)
MaxN == 2          \* states per model: 1..MaxN
MaxT == 2          \* frames per utterance: 0..MaxT

(* The phone inventory (48 classes in the source), cut to two classes *)
Classes == {0, 1}
NumClasses == Cardinality(Classes)

(* eps = 10^-DefaultEps, the default of __init__ *)
DefaultEps == 200
EpsChoices == {DefaultEps, 100}

-----------------------------------------------------------------------------
(* Floating point *)

NaN == -(2^30)

\* x + y on floats: NaN propagates
FAdd(x, y) == IF x = NaN \/ y = NaN THEN NaN ELSE x + y

\* c / d on the count arrays: 0/0 is NaN (counts never exceed out-degrees,
\* so x/0 with x > 0 does not arise); the quotient is in 1/1000
FDiv(c, d) == IF d = 0 THEN NaN ELSE (1000 * c) \div d

\* natural log of s/1000 in 1/1000 nat, piecewise linear between powers of 2
RECURSIVE LnM(_)
LnM(s) == IF s >= 2000 THEN 693 + LnM(s \div 2)
          ELSE IF s < 1000 THEN LnM(2 * s) - 693
          ELSE ((s - 1000) * 693) \div 1000

\* natural log of 10^-e in 1/1000 nat
LnEps(e) == 0 - ((e * 2302585) \div 1000)

\* np.log(x + eps): eps = 10^-e is below the precision of every x > 0 here
NpLogPlusEps(x, e) == IF x = NaN THEN NaN
                      ELSE IF x = 0 THEN LnEps(e)
                      ELSE LnM(x)

\* exp(d/1000) in 1/1000 for d <= 0, piecewise linear between powers of 2
ExpM(d) == LET q == (0 - d) \div 693
               r == (0 - d) % 693
           IN  IF q > 20 THEN 0 ELSE (1000 - (r * 500) \div 693) \div (2^q)

RECURSIVE SeqSum(_)
SeqSum(s) == IF s = <<>> THEN 0 ELSE Head(s) + SeqSum(Tail(s))

HasNaN(v) == \E k \in 1..Len(v) : v[k] = NaN

\* np.max: NaN if any entry is NaN, else the greatest entry
NpMax(v) == IF HasNaN(v) THEN NaN
            ELSE CHOOSE m \in {v[k] : k \in 1..Len(v)} :
                   \A k \in 1..Len(v) : v[k] <= m

\* np.argmax scans left to right and keeps the first greatest entry; a NaN is
\* greater than everything, so the first NaN wins.  Returns a 0-based index.
RECURSIVE ArgMaxScan(_, _, _)
ArgMaxScan(v, k, best) ==
  IF k > Len(v) THEN best - 1
  ELSE IF v[best] = NaN THEN best - 1
  ELSE IF v[k] = NaN \/ v[k] > v[best] THEN ArgMaxScan(v, k + 1, k)
  ELSE ArgMaxScan(v, k + 1, best)

argmax(v) == ArgMaxScan(v, 2, 1)

\* scipy.special.logsumexp: shift by the maximum, sum the exponentials, log
logsumexp(v) ==
  IF HasNaN(v) THEN NaN
  ELSE LET m == NpMax(v)
       IN  m + LnM(SeqSum([k \in 1..Len(v) |-> ExpM(v[k] - m)]))

-----------------------------------------------------------------------------
(* numpy shapes *)

\* u + v on 1-d arrays broadcasts a length-1 operand; other length
\* mismatches raise ValueError
CanBroadcast(m, n) == m = n \/ m = 1 \/ n = 1

BAdd(u, v) ==
  IF Len(u) = Len(v) THEN [k \in 1..Len(u) |-> FAdd(u[k], v[k])]
  ELSE IF Len(u) = 1 THEN [k \in 1..Len(v) |-> FAdd(u[1], v[k])]
  ELSE [k \in 1..Len(u) |-> FAdd(u[k], v[1])]

\* row[:] = vec into a row of length n
CanAssign(m, n) == m = n \/ m = 1

Assign(vec, n) == IF Len(vec) = n THEN vec ELSE [k \in 1..n |-> vec[1]]

\* A[:, i] for the 0-based column i
Column(M, i) == [j \in 1..Len(M) |-> M[j][i + 1]]

Zeros(n) == [k \in 1..n |-> 0]

-----------------------------------------------------------------------------
(* Inputs *)

\* likelihood gaps between the favoured class and the others, in 1/1000 nat
EmissionGaps == {2000, 500000}

\* one row of the emission matrix: all classes equal, or one class favoured
Frames ==
  {[k \in 1..NumClasses |-> 0]} \cup
  {[k \in 1..NumClasses |-> IF k = c + 1 THEN 0 ELSE 0 - g] :
      c \in Classes, g \in EmissionGaps}

\* initial distributions of length n (probabilities in 1/1000)
InitDists(n) ==
  {[k \in 1..n |-> IF k = 1 THEN 1000 ELSE 0]} \cup
  (IF n >= 2 THEN {[k \in 1..n |-> IF k <= 2 THEN 500 ELSE 0]} ELSE {})

\* n x n transition matrices: left to right with an absorbing last state (the
\* word models of the source), the identity, and a cycle
LeftToRight(n) == [j \in 1..n |-> [i \in 1..n |->
                     IF j = n THEN (IF i = n THEN 1000 ELSE 0)
                     ELSE IF i = j THEN 900 ELSE IF i = j + 1 THEN 100 ELSE 0]]
Identity(n) == [j \in 1..n |-> [i \in 1..n |-> IF i = j THEN 1000 ELSE 0]]
Cycle(n) == [j \in 1..n |-> [i \in 1..n |->
               IF n = 1 THEN 1000
               ELSE IF i = j \/ i = (j % n) + 1 THEN 500 ELSE 0]]
TransMats(n) == {LeftToRight(n), Identity(n), Cycle(n)}

\* label lists of length n: distinct classes in order, one class for all
\* states, and a list whose last label is outside the inventory
LabelLists(n) ==
  {[j \in 1..n |-> (j - 1) % NumClasses],
   [j \in 1..n |-> 0],
   [j \in 1..n |-> IF j = n THEN NumClasses ELSE 0]}

\* the argument tuples of __init__: matching shapes, and shapes that do not
\* match len(state_labels) (a longer initial distribution, a larger matrix)
CtorArgs ==
  UNION {
    [state_labels : LabelLists(n),
     initial_state_distribution : InitDists(n),
     transition_matrix : TransMats(n),
     eps : {DefaultEps}]
    \cup
    [state_labels : {[j \in 1..n |-> (j - 1) % NumClasses]},
     initial_state_distribution : InitDists(n),
     transition_matrix : {LeftToRight(n)},
     eps : EpsChoices]
    \cup
    [state_labels : {[j \in 1..n |-> (j - 1) % NumClasses]},
     initial_state_distribution : InitDists(n + 1),
     transition_matrix : {LeftToRight(n)},
     eps : {DefaultEps}]
    \cup
    [state_labels : {[j \in 1..n |-> (j - 1) % NumClasses]},
     initial_state_distribution : {[k \in 1..n |-> IF k = 1 THEN 1000 ELSE 0]},
     transition_matrix : TransMats(n + 1),
     eps : {DefaultEps}]
    : n \in 1..MaxN }

-----------------------------------------------------------------------------
(* MyHMM.  The operators below read the fields eps, pi, A, labels, N_states *)
(* of the object, as the methods read self.                                 *)

\* np.log(initial_state_distribution + eps), np.log(transition_matrix + eps)
LogVec(v, e) == [k \in 1..Len(v) |-> NpLogPlusEps(v[k], e)]
LogMat(M, e) == [j \in 1..Len(M) |-> LogVec(M[j], e)]

\* every label indexes a column of the emission matrix
LabelsInRange == \A j \in 1..Len(labels) : labels[j] < NumClasses

\* state_likelihoods_copy[t] = state_likelihoods[t][self.labels]
restrict(sl) ==
  [t \in 1..Len(sl) |-> [j \in 1..N_states |-> sl[t][labels[j] + 1]]]

\* length of u + v when the two broadcast
BLen(m, n) == IF m = 1 THEN n ELSE m

\* shapes accepted by  trellis[0] = self.pi + state_likelihoods[0]
InitShapeOK == /\ CanBroadcast(Len(pi), N_states)
               /\ CanAssign(BLen(Len(pi), N_states), N_states)

\* shapes accepted by  trellis[t-1] + self.A[:, i]
InductShapeOK == CanBroadcast(N_states, Len(A))

\* the exception raised before the recursion can run to its end, or "none"
TrellisError(sl) ==
  IF Len(sl) >= 1 /\ ~LabelsInRange THEN "IndexError"
  ELSE IF Len(sl) = 0 THEN "IndexError"
  ELSE IF ~InitShapeOK THEN "ValueError"
  ELSE IF Len(sl) >= 2 /\ ~InductShapeOK THEN "ValueError"
  ELSE "none"

\* trellis[0] = self.pi + state_likelihoods[0]
InitRow(e) == Assign(BAdd(pi, e[1]), N_states)

\* alpha[t, i] = logsumexp(alpha[t-1] + self.A[:, i]) + state_likelihoods[t, i]
\* appended to the rows prev = alpha[0 .. t-2] (t the 1-based row to add)
forward_step(prev, e, t) ==
  Append(prev,
    [i \in 1..N_states |->
       FAdd(logsumexp(BAdd(prev[t - 1], Column(A, i - 1))), e[t][i])])

\* alpha[0 .. t-1] for t >= 1, e the restricted emission matrix
RECURSIVE forward_rows(_, _)
forward_rows(e, t) ==
  IF t = 1 THEN <<InitRow(e)>>
  ELSE forward_step(forward_rows(e, t - 1), e, t)

\* a wrong termination: the sum over all states of the last frame
ForwardTerminationAll(alpha_) == logsumexp(alpha_[Len(alpha_)])

\* return alpha[-1][-1]
ForwardTermination(alpha_) ==
  alpha_[Len(alpha_)][Len(alpha_[Len(alpha_)])]

forward_return(rows) ==
  [err |-> "none",
   built |-> {"state_likelihoods_copy", "alpha"},
   alpha |-> rows, score |-> <<ForwardTermination(rows)>>]

forward(sl) ==
  IF TrellisError(sl) # "none"
  THEN [err |-> TrellisError(sl),
        built |-> IF Len(sl) >= 1 /\ ~LabelsInRange
                  THEN {"state_likelihoods_copy"}
                  ELSE {"state_likelihoods_copy", "alpha"},
        alpha |-> <<>>, score |-> <<>>]
  ELSE forward_return(forward_rows(restrict(sl), Len(sl)))

\* delta[t, i] = np.max(delta[t-1] + self.A[:, i]) + state_likelihoods[t, i]
\* psi[t, i] = np.argmax(delta[t-1] + self.A[:, i])
viterbi_step(prev, e, t) ==
  [delta |-> Append(prev.delta,
               [i \in 1..N_states |->
                  FAdd(NpMax(BAdd(prev.delta[t - 1], Column(A, i - 1))), e[t][i])]),
   psi   |-> Append(prev.psi,
               [i \in 1..N_states |->
                  argmax(BAdd(prev.delta[t - 1], Column(A, i - 1)))])]

\* delta[0 .. t-1] and psi[0 .. t-1] for t >= 1
RECURSIVE viterbi_rows(_, _)
viterbi_rows(e, t) ==
  IF t = 1 THEN [delta |-> <<InitRow(e)>>, psi |-> <<Zeros(N_states)>>]
  ELSE viterbi_step(viterbi_rows(e, t - 1), e, t)

\* q_star[t] = psi[t+1, int(q_star[t+1])] for t = from .. 0, q the entries
\* q_star[from+1 ..] already set; the index is checked against psi's width
RECURSIVE backtrack(_, _, _)
backtrack(psi_, from, q) ==
  IF from < 0 THEN [err |-> "none", q_star |-> q]
  ELSE IF Head(q) >= Len(psi_[1]) THEN [err |-> "IndexError", q_star |-> <<>>]
  ELSE backtrack(psi_, from - 1, <<psi_[from + 2][Head(q) + 1]>> \o q)

viterbi_return(rows, back) ==
  [err |-> back.err,
   built |-> {"state_likelihoods_copy", "delta", "psi", "q_star"},
   delta |-> IF back.err = "none" THEN rows.delta ELSE <<>>,
   psi   |-> IF back.err = "none" THEN rows.psi ELSE <<>>,
   q_star |-> back.q_star]

\* q_star[-1] = np.argmax(delta[-1]), then the backtracking loop
viterbi_path(rows) ==
  viterbi_return(rows, backtrack(rows.psi, Len(rows.psi) - 2,
                                 <<argmax(rows.delta[Len(rows.delta)])>>))

viterbi(sl) ==
  IF TrellisError(sl) # "none"
  THEN [err |-> TrellisError(sl),
        built |-> IF Len(sl) >= 1 /\ ~LabelsInRange
                  THEN {"state_likelihoods_copy"}
                  ELSE IF Len(sl) = 0 \/ ~InitShapeOK
                  THEN {"state_likelihoods_copy", "delta"}
                  ELSE {"state_likelihoods_copy", "delta", "psi"},
        delta |-> <<>>, psi |-> <<>>, q_star |-> <<>>]
  ELSE viterbi_path(viterbi_rows(restrict(sl), Len(sl)))

\* transitions_ij and out_transitions counted along the path q (0-based states)
transitions_ij(q, j, i) ==
  Cardinality({t \in 1..(Len(q) - 1) : q[t] = j /\ q[t + 1] = i})
out_transitions(q, j) ==
  Cardinality({t \in 1..(Len(q) - 1) : q[t] = j})

\* a wrong re-estimation: the new log matrix averaged with the old one
reestimate_blend(q) ==
  [j \in 1..N_states |-> [i \in 1..N_states |->
     LET new == NpLogPlusEps(FDiv(transitions_ij(q, j - 1, i - 1),
                                  out_transitions(q, j - 1)), eps)
     IN  IF new = NaN \/ A[j][i] = NaN THEN new ELSE (A[j][i] + new) \div 2]]

\* np.log(transitions_ij / out_transitions[:, None] + self.eps)
reestimate(q) ==
  [j \in 1..N_states |-> [i \in 1..N_states |->
     NpLogPlusEps(FDiv(transitions_ij(q, j - 1, i - 1),
                       out_transitions(q, j - 1)), eps)]]

\* the loop over the path and the assignment of self.A, v the result of
\* self.viterbi(state_likelihoods)
update_from(v) ==
  IF v.err # "none"
  THEN [err |-> v.err,
        built |-> v.built \cup {"transitions_ij", "out_transitions"},
        q_star |-> <<>>, A |-> A]
  ELSE IF Len(v.q_star) >= 2 /\ \E t \in 1..Len(v.q_star) : v.q_star[t] >= N_states
  THEN [err |-> "IndexError",
        built |-> v.built \cup {"transitions_ij", "out_transitions"},
        q_star |-> <<>>, A |-> A]
  ELSE [err |-> "none",
        built |-> v.built \cup {"transitions_ij", "out_transitions"},
        q_star |-> v.q_star, A |-> reestimate(v.q_star)]

viterbi_transition_update(sl) == update_from(viterbi(sl))

-----------------------------------------------------------------------------
(* The program *)

NoCall == /\ err' = "none" /\ built' = {} /\ alpha' = <<>> /\ delta' = <<>>
          /\ psi' = <<>> /\ q_star' = <<>> /\ score' = <<>>

NoTwice == [applies |-> FALSE, q_star |-> <<>>, A |-> <<>>]

\* before any model is built: no object, no utterance
Init ==
  /\ constructed = FALSE
  /\ ctor = [state_labels |-> <<>>, initial_state_distribution |-> <<>>,
             transition_matrix |-> <<>>, eps |-> DefaultEps]
  /\ eps = DefaultEps /\ pi = <<>> /\ A = <<>> /\ labels = <<>> /\ N_states = 0
  /\ state_likelihoods = <<>>
  /\ op = "none" /\ err = "none" /\ built = {} /\ alpha = <<>> /\ delta = <<>>
  /\ psi = <<>> /\ q_star = <<>> /\ score = <<>>
  /\ twice = NoTwice

\* MyHMM.__init__: no argument is checked against another
Construct ==
  /\ ~constructed
  /\ \E args \in CtorArgs :
       /\ ctor' = args
       /\ eps' = args.eps
       /\ pi' = LogVec(args.initial_state_distribution, args.eps)
       /\ A' = LogMat(args.transition_matrix, args.eps)
       /\ labels' = args.state_labels
       /\ N_states' = Len(args.state_labels)
  /\ constructed' = TRUE
  /\ op' = "__init__"
  /\ NoCall
  /\ UNCHANGED <<state_likelihoods, twice>>

\* the caller starts the emission matrix of a new utterance
NewUtterance ==
  /\ constructed
  /\ state_likelihoods # <<>>
  /\ state_likelihoods' = <<>>
  /\ op' = "none"
  /\ NoCall
  /\ twice' = NoTwice
  /\ UNCHANGED model_vars

\* compute_phone_likelihoods appends the likelihoods of one more frame
AppendFrame ==
  /\ constructed
  /\ Len(state_likelihoods) < MaxT
  /\ \E f \in Frames : state_likelihoods' = Append(state_likelihoods, f)
  /\ op' = "none"
  /\ NoCall
  /\ twice' = NoTwice
  /\ UNCHANGED model_vars

\* a forward call that writes the restricted matrix back to the caller's array
ForwardCallInPlace ==
  /\ constructed
  /\ \E r \in {forward(state_likelihoods)} :
       /\ err' = r.err /\ built' = r.built /\ alpha' = r.alpha /\ score' = r.score
       /\ state_likelihoods' = IF Len(state_likelihoods) >= 1 /\ LabelsInRange
                               THEN restrict(state_likelihoods)
                               ELSE state_likelihoods
  /\ op' = "forward"
  /\ delta' = <<>> /\ psi' = <<>> /\ q_star' = <<>>
  /\ twice' = NoTwice
  /\ UNCHANGED model_vars

\* hmm.forward(state_likelihoods)
ForwardCall ==
  /\ constructed
  /\ \E r \in {forward(state_likelihoods)} :
       /\ err' = r.err /\ built' = r.built /\ alpha' = r.alpha /\ score' = r.score
  /\ op' = "forward"
  /\ delta' = <<>> /\ psi' = <<>> /\ q_star' = <<>>
  /\ twice' = NoTwice
  /\ UNCHANGED <<model_vars, state_likelihoods>>

\* hmm.viterbi(state_likelihoods)
ViterbiCall ==
  /\ constructed
  /\ \E r \in {viterbi(state_likelihoods)} :
       /\ err' = r.err /\ built' = r.built /\ delta' = r.delta /\ psi' = r.psi
       /\ q_star' = r.q_star
  /\ op' = "viterbi"
  /\ alpha' = <<>> /\ score' = <<>>
  /\ twice' = NoTwice
  /\ UNCHANGED <<model_vars, state_likelihoods>>

\* a re-estimation that also re-derives self.pi from the first state of the path
UpdateCallAlsoPi ==
  /\ constructed
  /\ \E r \in {viterbi_transition_update(state_likelihoods)} :
       /\ err' = r.err /\ built' = r.built /\ q_star' = r.q_star /\ A' = r.A
       /\ pi' = IF r.err = "none"
                THEN [j \in 1..N_states |->
                        NpLogPlusEps(IF r.q_star[1] = j - 1 THEN 1000 ELSE 0, eps)]
                ELSE pi
       /\ twice' = IF r.err = "none" /\ op = "viterbi_transition_update"
                       /\ err = "none"
                    THEN [applies |-> TRUE, q_star |-> q_star, A |-> A]
                    ELSE NoTwice
  /\ op' = "viterbi_transition_update"
  /\ alpha' = <<>> /\ score' = <<>> /\ delta' = <<>> /\ psi' = <<>>
  /\ UNCHANGED <<constructed, ctor, eps, labels, N_states, state_likelihoods>>

\* hmm.viterbi_transition_update(state_likelihoods): self.A is assigned last
UpdateCall ==
  /\ constructed
  /\ \E r \in {viterbi_transition_update(state_likelihoods)} :
       /\ err' = r.err /\ built' = r.built /\ q_star' = r.q_star /\ A' = r.A
       /\ twice' = IF r.err = "none" /\ op = "viterbi_transition_update"
                       /\ err = "none"
                    THEN [applies |-> TRUE, q_star |-> q_star, A |-> A]
                    ELSE NoTwice
  /\ op' = "viterbi_transition_update"
  /\ alpha' = <<>> /\ score' = <<>> /\ delta' = <<>> /\ psi' = <<>>
  /\ UNCHANGED <<constructed, ctor, eps, pi, labels, N_states, state_likelihoods>>

Next == \/ Construct
        \/ NewUtterance
        \/ AppendFrame
        \/ ForwardCall
        \/ ViterbiCall
        \/ UpdateCall

Spec == Init /\ [][Next]_vars

-----------------------------------------------------------------------------
(* Vocabulary of the properties *)

T == Len(state_likelihoods)

\* the object has the shapes of a Model: pi of length N, A of shape N x N
WellShaped == /\ Len(pi) = N_states
              /\ Len(A) = N_states
              /\ \A j \in 1..Len(A) : Len(A[j]) = N_states

\* the arguments of __init__ have matching shapes
CtorShapesMatch ==
  /\ Len(ctor.initial_state_distribution) = Len(ctor.state_labels)
  /\ Len(ctor.transition_matrix) = Len(ctor.state_labels)
  /\ \A j \in 1..Len(ctor.transition_matrix) :
        Len(ctor.transition_matrix[j]) = Len(ctor.state_labels)

\* A is the matrix __init__ computed (no re-estimation has replaced it)
AsConstructed == A = LogMat(ctor.transition_matrix, eps)

MatHasNaN(M) == \E j \in 1..Len(M) : HasNaN(M[j])

\* emission[t][stateLabels[j]] for the 1-based frame t and state j
Emission(t, j) == state_likelihoods[t][labels[j] + 1]

\* x <= y on floats: false when either is NaN
FLeq(x, y) == x # NaN /\ y # NaN /\ x <= y

\* all state sequences of length n, as sequences of 0-based states
AllPaths(n) == [1..n -> 0..(N_states - 1)]

\* initialLogProb[p[0]] + emission[0][p[0]] + sum of transition + emission
RECURSIVE PathScore(_, _)
PathScore(p, t) ==
  IF t = 1 THEN FAdd(pi[p[1] + 1], Emission(1, p[1] + 1))
  ELSE FAdd(PathScore(p, t - 1),
            FAdd(A[p[t - 1] + 1][p[t] + 1], Emission(t, p[t] + 1)))

\* j (0-based) is the smallest index whose entry of v is the maximum of the
\* numbers in v; when v holds no number at all, the first index
IsFirstMax(v, j) ==
  /\ j \in 0..(Len(v) - 1)
  /\ IF \A k \in 1..Len(v) : v[k] = NaN
     THEN j = 0
     ELSE /\ \A k \in 1..Len(v) : v[k] # NaN => FLeq(v[k], v[j + 1])
          /\ \A k \in 1..j : v[k] # v[j + 1]

\* the forward trellis as the specification defines it
RECURSIVE AlphaSpec(_, _)
AlphaSpec(t, i) ==
  IF t = 1 THEN FAdd(pi[i], Emission(1, i))
  ELSE FAdd(logsumexp([j \in 1..N_states |->
                         FAdd(AlphaSpec(t - 1, j), A[j][i])]),
            Emission(t, i))

\* a state sequence that starts with positive initial probability and uses
\* only transitions of positive probability in the matrices given to __init__
ValidSeq(p) ==
  /\ ctor.initial_state_distribution[p[1] + 1] > 0
  /\ \A t \in 1..(Len(p) - 1) :
        ctor.transition_matrix[p[t] + 1][p[t + 1] + 1] > 0

-----------------------------------------------------------------------------
(* Claims *)

\* C1: for every model and every emission sequence with T >= 1, viterbi
\* returns T state indices in 0..N-1 whose total log score is the maximum
\* over all N^T state sequences: no sequence that has a score scores higher.
C1_ViterbiOptimal ==
  (op = "viterbi" /\ WellShaped /\ LabelsInRange /\ T >= 1) =>
     /\ err = "none"
     /\ Len(q_star) = T
     /\ \A t \in 1..Len(q_star) : q_star[t] \in 0..(N_states - 1)
     /\ \A p \in AllPaths(T) :
           PathScore(p, T) # NaN => FLeq(PathScore(p, T), PathScore(q_star, T))

\* viterbi is optimal on every model whose transition matrix holds no NaN
ViterbiOptimalOnFinite ==
  (op = "viterbi" /\ WellShaped /\ LabelsInRange /\ T >= 1 /\ ~MatHasNaN(A)) =>
     /\ err = "none"
     /\ Len(q_star) = T
     /\ \A t \in 1..Len(q_star) : q_star[t] \in 0..(N_states - 1)
     /\ \A p \in AllPaths(T) : FLeq(PathScore(p, T), PathScore(q_star, T))

\* C2: for T >= 1, forward returns alpha[T-1][N-1] of the trellis
\* alpha[0][i] = initialLogProb[i] + emission[0][stateLabels[i]],
\* alpha[t][i] = logsumexp_j(alpha[t-1][j] + transitionLogProb[j][i])
\*               + emission[t][stateLabels[i]].
C2_ForwardReturnsLastState ==
  (op = "forward" /\ WellShaped /\ LabelsInRange /\ T >= 1) =>
     /\ err = "none"
     /\ score = <<AlphaSpec(T, N_states)>>
     /\ \A t \in 1..T : \A i \in 1..N_states : alpha[t][i] = AlphaSpec(t, i)

\* a forward call on two or more states and frames whose result differs from
\* the sum over all states of the last frame
C2_Witness ==
  /\ op = "forward" /\ err = "none" /\ WellShaped
  /\ T >= 2 /\ N_states >= 2
  /\ score # <<NaN>>
  /\ score # <<logsumexp(alpha[T])>>

\* C3: after viterbi_transition_update every row with nonzero out-degree is
\* log(counts / outDegree + eps) and its ratios sum to 1 within tolerance;
\* every row with zero out-degree is the all-epsilon row; all entries finite.
C3_RowsNormalisedOrEpsilon ==
  (op = "viterbi_transition_update" /\ err = "none") =>
     \A j \in 1..N_states :
        IF out_transitions(q_star, j - 1) > 0
        THEN /\ \A i \in 1..N_states :
                   A[j][i] = NpLogPlusEps(
                               FDiv(transitions_ij(q_star, j - 1, i - 1),
                                    out_transitions(q_star, j - 1)), eps)
             /\ SeqSum([i \in 1..N_states |->
                          FDiv(transitions_ij(q_star, j - 1, i - 1),
                               out_transitions(q_star, j - 1))])
                  \in (1000 - N_states)..1000
        ELSE \A i \in 1..N_states : A[j][i] = LnEps(eps)

\* C4: whenever some length-T sequence starts with positive initial
\* probability and uses only transitions of positive probability, the path
\* viterbi returns is such a sequence.
C4_PathUsesPositiveTransitions ==
  (op = "viterbi" /\ err = "none" /\ WellShaped /\ CtorShapesMatch
     /\ AsConstructed /\ \E p \in AllPaths(T) : ValidSeq(p))
  => ValidSeq(q_star)

\* C5: forward and viterbi on T = 0 frames are rejected with EmptySequence
\* before any trellis is built, and return nothing.
C5_EmptySequenceRejected ==
  (op \in {"forward", "viterbi"} /\ T = 0) =>
     /\ err = "EmptySequence"
     /\ built = {}
     /\ score = <<>> /\ q_star = <<>>

\* C6: construction with an initial distribution whose length is not N, or a
\* transition matrix that is not N x N, fails and produces no model.
C6_MismatchedShapesRejected ==
  (op = "__init__" /\ ~CtorShapesMatch) => (err = "InvalidShape" /\ ~constructed)

\* C7: after any number of re-estimations, initialLogProb, stateLabels, N and
\* epsilon are what __init__ set.
C7_UpdateKeepsOtherFields ==
  constructed =>
     /\ pi = LogVec(ctor.initial_state_distribution, ctor.eps)
     /\ labels = ctor.state_labels
     /\ N_states = Len(ctor.state_labels)
     /\ eps = ctor.eps

\* two completed re-estimations in a row, the second of which changed A
C7_Witness ==
  /\ op = "viterbi_transition_update" /\ err = "none"
  /\ twice.applies /\ A # twice.A
  /\ A # LogMat(ctor.transition_matrix, ctor.eps)

C9_FirstOccurrence ==
  (op = "viterbi" /\ err = "none" /\ WellShaped) =>
     /\ \A t \in 2..T : \A i \in 1..N_states :
           IsFirstMax([j \in 1..N_states |-> FAdd(delta[t - 1][j], A[j][i])],
                      psi[t][i])
     /\ IsFirstMax(delta[T], q_star[T])
     /\ \A t \in 1..(T - 1) : q_star[t] = psi[t + 1][q_star[t + 1] + 1]

\* first occurrence wins on every model whose transition matrix holds no NaN
FirstOccurrenceOnFinite ==
  (op = "viterbi" /\ err = "none" /\ WellShaped /\ ~MatHasNaN(A)) =>
     /\ \A t \in 2..T : \A i \in 1..N_states :
           IsFirstMax([j \in 1..N_states |-> FAdd(delta[t - 1][j], A[j][i])],
                      psi[t][i])
     /\ IsFirstMax(delta[T], q_star[T])
     /\ \A t \in 1..(T - 1) : q_star[t] = psi[t + 1][q_star[t + 1] + 1]

\* C10: a call changes the object only if it is a viterbi_transition_update
\* that completes, and then only A; no call changes the caller's matrix.
C10_OnlyCompletedUpdateWrites ==
  [][ op' \in {"forward", "viterbi", "viterbi_transition_update"} =>
        /\ UNCHANGED <<constructed, ctor, eps, pi, labels, N_states>>
        /\ state_likelihoods' = state_likelihoods
        /\ (op' = "viterbi_transition_update" /\ err' = "none") \/ A' = A ]_vars

\* a re-estimation that fails on the empty utterance of a model whose matrix
\* an earlier re-estimation replaced
C10_Witness ==
  /\ op = "viterbi_transition_update" /\ err = "IndexError" /\ T = 0
  /\ WellShaped /\ ~AsConstructed

====
